---- MODULE Spec2Model ----
(***************************************************************************)
(* A model of lando's configuration helpers (src/lib/config.js) and update *)
(* helpers (src/lib/updates.js).                                           *)
(*                                                                         *)
(* Configuration values are tagged records:                                *)
(*   [t |-> "undefined"]  a key that is not set (reads as undefined)        *)
(*   [t |-> "scalar"]     a number/string/boolean/null                      *)
(*   [t |-> "seq"]        an array of scalars                               *)
(*   [t |-> "map"]        a plain object, a function from keys to values    *)
(* A configuration object is a function from a key set to such values.     *)
(* Strings whose characters matter (environment names, PATH, version tags) *)
(* are sequences of one-character strings.                                 *)
(***************************************************************************)
EXTENDS Integers, Sequences, FiniteSets, TLC

VARIABLES
  \* exports.merge: the caller's two objects, the call's position and result
  old, fresh, before, ret, mpc,
  \* exports.loadFiles: the argument, the loop index, the accumulator
  files, fidx, conf, lpc,
  \* process.env and process.platform, and the last call on them: its
  \* operation, argument and return value, whether it changed process.env,
  \* and for updatePath whether the call before it was the same call, and
  \* that call's return value
  env, platform, ecall,
  \* updates.js: the clock, the last fetch call, the refresh promise chain
  now, ticks, fcall, rpc, rversion, rdata, attempts, record

mergeVars == <<old, fresh, before, ret, mpc>>
loadVars == <<files, fidx, conf, lpc>>
envVars == <<env, platform, ecall>>
updVars == <<now, ticks, fcall, rpc, rversion, rdata, attempts, record>>
vars == <<mergeVars, loadVars, envVars, updVars>>

----------------------------------------------------------------------------
(* Bounds of the model *)

\* longest array in a merge input
MaxLen == 2
\* longest list of paths handed to loadFiles
MaxFiles == 3
\* most entries of an initial search path
MaxEntries == 2
\* longest search path (in characters) updatePath is called on
MaxPathLen == 9
\* clock steps of a run
MaxTicks == 4
\* latest instant (ms) a cached record was fetched at
MaxFetched == 2
\* most releases in a listing
MaxReleases == 2

----------------------------------------------------------------------------
(* Configuration values *)

Undefined == [t |-> "undefined", v |-> 0]
Sc(n) == [t |-> "scalar", v |-> n]
Sq(s) == [t |-> "seq", v |-> s]
Mp(o) == [t |-> "map", v |-> o]

Scalars == {1, 2}
Keys == {"a", "b"}
NestedKeys == {"n"}

SeqsUpTo(S, n) == UNION {[1..m -> S] : m \in 0..n}
Range(s) == {s[i] : i \in 1..Len(s)}

\* values without nesting, nested objects, and all values of a top-level key
Leaves == {Undefined} \cup {Sc(n) : n \in Scalars}
             \cup {Sq(s) : s \in SeqsUpTo(Scalars, MaxLen)}
NestedObjects == [NestedKeys -> Leaves]
Values == Leaves \cup {Mp(o) : o \in NestedObjects}
\* key "b" holds no nested object and no array longer than one element
Objects == {o \in [Keys -> Values] :
              /\ o["b"].t # "map"
              /\ o["b"].t = "seq" => Len(o["b"].v) <= 1}

----------------------------------------------------------------------------
(* exports.merge: _.mergeWith(old, fresh, customizer) *)

isArray(value) == value.t = "seq"

RECURSIVE baseUniq(_, _)
baseUniq(array, result) ==
  IF array = <<>> THEN result
  ELSE baseUniq(Tail(array),
                IF \E i \in 1..Len(result) : result[i] = Head(array)
                  THEN result
                  ELSE Append(result, Head(array)))

\* a faulty variant of uniq: no de-duplication
uniqKeepsAll(array) == array

\* _.uniq: the first occurrence of each element, in order
uniq(array) == baseUniq(array, <<>>)

\* Array.prototype.concat: an array argument is spread, any other value is
\* appended as one element.  (A plain-object argument would be appended as an
\* element by reference; arrays of this model hold scalars only, so the
\* inputs never put an array under a nested object at one key.)
concat(s, f) ==
  CASE f.t = "seq" -> s \o f.v
    [] f.t = "scalar" -> Append(s, f.v)

\* the customizer handed to _.mergeWith: function(s, f)
customizer(s, f) ==
  IF isArray(s) THEN Sq(uniq(concat(s.v, f))) ELSE Undefined

\* _.mergeWith(object, source, customizer): for every key of source, the
\* customizer's result if it returns one; else a nested object is merged
\* recursively (into a fresh object when the destination holds none), and
\* any other source value (scalar, or an array copied element by element)
\* is assigned.
RECURSIVE mergeWith(_, _)
mergeWith(object, source) ==
  [key \in DOMAIN object |->
    LET objValue == object[key]
        srcValue == source[key]
        newValue == customizer(objValue, srcValue)
    IN  IF srcValue = Undefined THEN objValue
        ELSE IF newValue # Undefined THEN newValue
        ELSE IF srcValue.t = "map"
          THEN Mp(mergeWith(IF objValue.t = "map" THEN objValue.v
                            ELSE [k \in DOMAIN srcValue.v |-> Undefined],
                            srcValue.v))
          ELSE srcValue]

\* inputs of merge: no array in old under a nested object in fresh
MergeInputs ==
  {p \in Objects \X Objects :
     \A k \in Keys : ~(p[1][k].t = "seq" /\ p[2][k].t = "map")}

MergeInit ==
  /\ \E p \in MergeInputs : old = p[1] /\ fresh = p[2]
  /\ before = [old |-> old, fresh |-> fresh]
  /\ ret = Undefined
  /\ mpc = "ready"

\* the call merge(old, fresh): _.mergeWith writes into its first argument
\* and returns it
merge ==
  /\ mpc = "ready"
  /\ old' = mergeWith(old, fresh)
  /\ ret' = Mp(old')
  /\ mpc' = "done"
  /\ UNCHANGED <<fresh, before>>

----------------------------------------------------------------------------
(* exports.loadFiles *)

EmptyObject == [k \in Keys |-> Undefined]

\* what a path of the list leads to: no file, a file js-yaml cannot parse,
\* or a YAML document (a mapping)
FileDocs ==
  {o \in Objects :
     /\ o["a"] \in {Undefined, Sc(1), Sc(2), Mp([n \in NestedKeys |-> Sc(1)])}
     /\ o["b"] \in {Undefined, Sc(1), Sq(<<1>>), Sq(<<2>>)}}
Files ==
  {[kind |-> "missing", doc |-> EmptyObject],
   [kind |-> "unparsable", doc |-> EmptyObject]}
    \cup {[kind |-> "yaml", doc |-> d] : d \in FileDocs}

\* fs.existsSync(file)
existsSync(file) == file.kind # "missing"

\* a faulty variant of loadFile: the accumulator is merged on top of the file
loadFileEarlierWins(c, file) ==
  IF existsSync(file) THEN mergeWith(file.doc, c) ELSE c

\* the body of the _.forEach callback for a file that parses:
\* conf = _config.merge(conf, yaml.safeLoad(fs.readFileSync(file)))
loadFile(c, file) ==
  IF existsSync(file) THEN mergeWith(c, file.doc) ELSE c

LoadInit ==
  /\ files \in SeqsUpTo(Files, MaxFiles)
  /\ fidx = 1
  /\ conf = EmptyObject
  /\ lpc = "loop"

\* one iteration of _.forEach(files, ...); yaml.safeLoad throws on a file
\* it cannot parse, and the exception leaves loadFiles
loadFilesStep ==
  /\ lpc = "loop"
  /\ fidx <= Len(files)
  /\ IF existsSync(files[fidx]) /\ files[fidx].kind = "unparsable"
       THEN lpc' = "threw" /\ UNCHANGED <<conf, fidx>>
       ELSE /\ conf' = loadFile(conf, files[fidx])
            /\ fidx' = fidx + 1
            /\ lpc' = lpc
  /\ UNCHANGED files

\* return conf
loadFilesReturn ==
  /\ lpc = "loop"
  /\ fidx > Len(files)
  /\ lpc' = "returned"
  /\ UNCHANGED <<files, fidx, conf>>

----------------------------------------------------------------------------
(* process.env: updatePath, stripEnv, loadEnvs *)

\* environment names are upper-case letters and "_"
Lower ==
  ("A" :> "a") @@ ("D" :> "d") @@ ("E" :> "e") @@ ("H" :> "h") @@
  ("I" :> "i") @@ ("K" :> "k") @@ ("L" :> "l") @@ ("M" :> "m") @@
  ("N" :> "n") @@ ("O" :> "o") @@ ("P" :> "p") @@ ("T" :> "t") @@
  ("Y" :> "y")
Letters == DOMAIN Lower

PATH == <<"P", "A", "T", "H">>
HOME == <<"H", "O", "M", "E">>
LANDO_DOMAIN == <<"L", "A", "N", "D", "O", "_", "D", "O", "M", "A", "I", "N">>
LANDO_MODE == <<"L", "A", "N", "D", "O", "_", "M", "O", "D", "E">>
MY_LANDO_KEY == <<"M", "Y", "_", "L", "A", "N", "D", "O", "_", "K", "E", "Y">>

\* the names an environment of the model may hold, in the order process.env
\* enumerates them
EnvOrder == <<PATH, HOME, LANDO_DOMAIN, LANDO_MODE, MY_LANDO_KEY>>
EnvNames == Range(EnvOrder)
EnvValues == {<<"1">>, <<"2">>}
Prefixes == {<<"L", "A", "N", "D", "O", "_">>, <<"M", "Y", "_">>, <<>>}

\* directories, and the entries an initial search path is made of
Dirs == {<<"/", "b">>, <<"/", "a">>}
PathEntries == {<<"/", "b">>, <<"/", "b", "x">>, <<"/", "a">>}

\* path.delimiter
delimiter == IF platform = "win32" THEN ";" ELSE ":"

RECURSIVE join(_, _)
\* Array.prototype.join on strings
join(parts, sep) ==
  IF Len(parts) = 0 THEN <<>>
  ELSE IF Len(parts) = 1 THEN parts[1]
  ELSE parts[1] \o <<sep>> \o join(Tail(parts), sep)

\* a faulty variant of includes: only the start of the name is looked at
includesAtStart(string, target) ==
  /\ Len(target) <= Len(string)
  /\ SubSeq(string, 1, Len(target)) = target

\* _.includes(string, target): target occurs in string
includes(string, target) ==
  \E i \in 0..(Len(string) - Len(target)) :
     SubSeq(string, i + 1, i + Len(target)) = target

\* _.startsWith(string, target); an undefined string counts as ''
startsWith(string, target) ==
  /\ Len(target) <= Len(string)
  /\ SubSeq(string, 1, Len(target)) = target

RECURSIVE trimStart(_, _)
\* _.trimStart(string, chars): drops the leading characters that occur in
\* chars; with empty chars the string is returned as it is
trimStart(string, chars) ==
  IF string = <<>> \/ chars = <<>> THEN string
  ELSE IF Head(string) \in Range(chars) THEN trimStart(Tail(string), chars)
  ELSE string

RECURSIVE words(_, _, _)
\* the words of a name: its maximal runs of letters
words(string, word, acc) ==
  IF string = <<>> THEN (IF word = <<>> THEN acc ELSE Append(acc, word))
  ELSE IF Head(string) \in Letters
    THEN words(Tail(string), Append(word, Head(string)), acc)
    ELSE words(Tail(string), <<>>,
               IF word = <<>> THEN acc ELSE Append(acc, word))

lowerCase(word) == [i \in 1..Len(word) |-> Lower[word[i]]]
capitalize(word) ==
  [i \in 1..Len(word) |-> IF i = 1 THEN word[i] ELSE Lower[word[i]]]

RECURSIVE compound(_, _)
compound(ws, index) ==
  IF ws = <<>> THEN <<>>
  ELSE (IF index = 0 THEN lowerCase(Head(ws)) ELSE capitalize(Head(ws)))
         \o compound(Tail(ws), index + 1)

\* _.camelCase(string): the first word in lower case, the others capitalized
camelCase(string) == compound(words(string, <<>>, <<>>), 0)

\* process.env[name] as a string: '' when unset
envString(e, name) == IF name \in DOMAIN e THEN e[name] ELSE <<>>

\* process.env[name] = value
envSet(e, name, value) ==
  [n \in DOMAIN e \cup {name} |-> IF n = name THEN value ELSE e[n]]

\* the value updatePath gives process.env[p]: dir joined in front of the old
\* value (an unset variable joins as the empty string) unless the old value
\* starts with dir
updatePathValue(cur, dir) ==
  IF ~startsWith(cur, dir) THEN join(<<dir, cur>>, delimiter) ELSE cur

\* the environment stripEnv leaves
stripped(e, prefix) ==
  [n \in {m \in DOMAIN e : ~includes(m, prefix)} |-> e[n]]

RECURSIVE loadEnvsFrom(_, _, _, _)
\* _.forEach(process.env, ...) of loadEnvs from the i-th name on
loadEnvsFrom(e, prefix, i, envConfig) ==
  IF i > Len(EnvOrder) THEN envConfig
  ELSE LET key == EnvOrder[i]
       IN  loadEnvsFrom(e, prefix, i + 1,
             IF key \in DOMAIN e /\ includes(key, prefix)
               THEN envSet(envConfig, camelCase(trimStart(key, prefix)), e[key])
               ELSE envConfig)

NoCall == [op |-> "none", arg |-> <<>>, twice |-> FALSE, changed |-> FALSE,
           ret |-> <<>>, prevRet |-> <<>>]

EnvInit ==
  /\ platform \in {"linux", "win32"}
  /\ \E names \in SUBSET (EnvNames \ {PATH}) :
     \E rest \in [names -> EnvValues] :
     \E p \in SeqsUpTo(PathEntries, MaxEntries) :
     \E set \in BOOLEAN :
        env = IF set THEN envSet(rest, PATH, join(p, delimiter)) ELSE rest
  /\ ecall = NoCall

\* updatePath(dir); the search-path variable is PATH (Path on win32, where
\* names are case-insensitive)
updatePath(dir) ==
  /\ \/ startsWith(envString(env, PATH), dir)
     \/ Len(envString(env, PATH)) + Len(dir) + 1 <= MaxPathLen
  /\ env' = envSet(env, PATH, updatePathValue(envString(env, PATH), dir))
  /\ ecall' = [op |-> "updatePath", arg |-> dir,
               twice |-> (ecall.op = "updatePath" /\ ecall.arg = dir),
               changed |-> (env' # env),
               ret |-> env'[PATH], prevRet |-> ecall.ret]
  /\ UNCHANGED platform

\* stripEnv(prefix): returns process.env
stripEnv(prefix) ==
  /\ env' = stripped(env, prefix)
  /\ ecall' = [NoCall EXCEPT !.op = "stripEnv", !.arg = prefix,
                             !.changed = (env' # env), !.ret = env']
  /\ UNCHANGED platform

\* loadEnvs(prefix): returns envConfig
loadEnvs(prefix) ==
  /\ ecall' = [NoCall EXCEPT !.op = "loadEnvs", !.arg = prefix,
                             !.ret = loadEnvsFrom(env, prefix, 1, <<>>)]
  /\ UNCHANGED <<env, platform>>

----------------------------------------------------------------------------
(* updates.js: fetch and refresh *)

\* the freshness window: 24 hours in milliseconds
FreshnessWindow == 86400000

\* Math.floor(Date.now()) advances by a millisecond or by just under a day
Tick ==
  /\ ticks < MaxTicks
  /\ ticks' = ticks + 1
  /\ \E d \in {1, FreshnessWindow - 1} : now' = now + d

\* the cached update data handed to fetch: none, or a record whose expires
\* was set by a refresh at one of the first instants
NoData == [present |-> FALSE, expires |-> 0]
CachedData ==
  {NoData} \cup {[present |-> TRUE, expires |-> t + FreshnessWindow] :
                   t \in 0..MaxFetched}

\* a faulty variant of fetch: a record is stale from the millisecond it
\* expires at
fetchStaleAtExpiry(data, t) ==
  IF ~data.present THEN TRUE ELSE ~(data.expires > t)

\* exports.fetch(data) with Date.now() = t
fetch(data, t) ==
  IF ~data.present THEN TRUE ELSE ~(data.expires >= t)

NoFetch == [called |-> FALSE, data |-> NoData, at |-> 0, ret |-> FALSE]

FetchInit ==
  /\ now = 0
  /\ ticks = 0
  /\ fcall = NoFetch

Fetch(data) ==
  /\ fcall' = [called |-> TRUE, data |-> data, at |-> now,
               ret |-> fetch(data, now)]
  /\ UNCHANGED <<now, ticks>>

\* version strings and release tags
Versions == {<<"v", "1">>, <<"1">>, <<"v", "v", "2">>}
Tags == {<<"v", "3">>, <<"4">>}

\* a release of the feed, or null in its place
Release(tag, draft, prerelease) ==
  [null |-> FALSE, tag_name |-> tag,
   html_url |-> IF tag = <<"4">> THEN "https://r/4" ELSE "https://r/v3",
   draft |-> draft, prerelease |-> prerelease]
NullRelease == [Release(<<>>, FALSE, FALSE) EXCEPT !.null = TRUE]
Releases ==
  {NullRelease}
    \cup {Release(t, d, p) : t \in Tags, d \in BOOLEAN, p \in BOOLEAN}
Feeds == SeqsUpTo(Releases, MaxReleases)

NoRecord == [version |-> <<>>, url |-> "none", expires |-> 0]

\* a faulty variant of eligible: drafts are not looked at
eligibleIgnoresDraft(release) == release.prerelease = FALSE

\* the predicate of _.find: release.draft === false &&
\* release.prerelease === false
eligible(release) == release.draft = FALSE /\ release.prerelease = FALSE

RECURSIVE find(_, _)
\* _.find(releases, eligible) from index i on: the index found, 0 for
\* undefined, -1 when reading a field of null throws first
find(releases, i) ==
  IF i > Len(releases) THEN 0
  ELSE IF releases[i].null THEN -1
  ELSE IF eligible(releases[i]) THEN i
  ELSE find(releases, i + 1)

\* the record of the .then handler, for the release found at index i
foundRecord(releases, i, version, t) ==
  [version |-> trimStart(IF i = 0 THEN version ELSE releases[i].tag_name,
                         <<"v">>),
   url |-> IF i = 0 THEN "" ELSE releases[i].html_url,
   expires |-> t + FreshnessWindow]

\* a faulty variant of fallbackRecord: the version is kept as given
fallbackRecordKeepsV(version, t) ==
  [version |-> version, url |-> "", expires |-> t + FreshnessWindow]

\* the record of the .catch handler
fallbackRecord(version, t) ==
  [version |-> trimStart(version, <<"v">>), url |-> "",
   expires |-> t + FreshnessWindow]

RefreshInit ==
  /\ now = 0
  /\ ticks = 0
  /\ rpc = "idle"
  /\ rversion = <<>>
  /\ rdata = <<>>
  /\ attempts = 0
  /\ record = NoRecord

\* refresh(version): github.repos.getReleases(landoRepoConfig) is called
refresh(version) ==
  /\ rpc \in {"idle", "resolved", "recovered"}
  /\ rpc' = "pending"
  /\ rversion' = version
  /\ rdata' = <<>>
  /\ attempts' = 1
  /\ record' = NoRecord
  /\ UNCHANGED <<now, ticks>>

\* the call resolves with a listing and the .then handler runs: it returns
\* the record, or throws on a null entry
getReleasesResolves(releases) ==
  /\ rpc = "pending"
  /\ rdata' = releases
  /\ IF find(releases, 1) = -1
       THEN rpc' = "rejected" /\ UNCHANGED record
       ELSE /\ rpc' = "resolved"
            /\ record' = foundRecord(releases, find(releases, 1), rversion, now)
  /\ UNCHANGED <<now, ticks, rversion, attempts>>

\* the call fails: network error, HTTP error, timeout
getReleasesRejects ==
  /\ rpc = "pending"
  /\ rpc' = "rejected"
  /\ UNCHANGED <<now, ticks, rversion, rdata, attempts, record>>

\* the .catch handler runs and the promise resolves with its record
catchHandler ==
  /\ rpc = "rejected"
  /\ rpc' = "recovered"
  /\ record' = fallbackRecord(rversion, now)
  /\ UNCHANGED <<now, ticks, rversion, rdata, attempts>>

----------------------------------------------------------------------------
(* Specifications *)

MergeParked ==
  /\ old = EmptyObject /\ fresh = EmptyObject
  /\ before = [old |-> EmptyObject, fresh |-> EmptyObject]
  /\ ret = Undefined /\ mpc = "parked"
LoadParked == files = <<>> /\ fidx = 1 /\ conf = EmptyObject /\ lpc = "parked"
EnvParked ==
  /\ env = <<>> /\ platform = "linux" /\ ecall = NoCall
FetchParked == fcall = NoFetch
RefreshParked ==
  /\ rpc = "parked" /\ rversion = <<>> /\ rdata = <<>> /\ attempts = 0
  /\ record = NoRecord
ClockParked == now = 0 /\ ticks = 0

clockVars == <<now, ticks>>
refreshVars == <<rpc, rversion, rdata, attempts, record>>

\* merge(old, fresh) on every pair of inputs
InitMerge ==
  MergeInit /\ LoadParked /\ EnvParked /\ FetchParked /\ RefreshParked
    /\ ClockParked
NextMerge ==
  merge /\ UNCHANGED <<loadVars, envVars, fcall, refreshVars, clockVars>>
SpecMerge == InitMerge /\ [][NextMerge]_vars

\* loadFiles(files) on every list of files
InitLoadFiles ==
  LoadInit /\ MergeParked /\ EnvParked /\ FetchParked /\ RefreshParked
    /\ ClockParked
notLoadVars == <<mergeVars, envVars, fcall, refreshVars, clockVars>>
NextLoadFiles ==
  \/ loadFilesStep /\ UNCHANGED notLoadVars
  \/ loadFilesReturn /\ UNCHANGED notLoadVars
SpecLoadFiles == InitLoadFiles /\ [][NextLoadFiles]_vars

\* calls of updatePath, stripEnv and loadEnvs in any order
InitEnv ==
  EnvInit /\ MergeParked /\ LoadParked /\ FetchParked /\ RefreshParked
    /\ ClockParked
notEnvVars == <<mergeVars, loadVars, fcall, refreshVars, clockVars>>
NextEnv ==
  \/ \E dir \in Dirs : updatePath(dir) /\ UNCHANGED notEnvVars
  \/ \E prefix \in Prefixes : stripEnv(prefix) /\ UNCHANGED notEnvVars
  \/ \E prefix \in Prefixes : loadEnvs(prefix) /\ UNCHANGED notEnvVars
SpecEnv == InitEnv /\ [][NextEnv]_vars

\* calls of fetch as the clock advances
InitFetch ==
  FetchInit /\ MergeParked /\ LoadParked /\ EnvParked /\ RefreshParked
notFetchVars == <<mergeVars, loadVars, envVars, refreshVars>>
NextFetch ==
  \/ Tick /\ UNCHANGED <<fcall, notFetchVars>>
  \/ \E data \in CachedData : Fetch(data) /\ UNCHANGED notFetchVars
SpecFetch == InitFetch /\ [][NextFetch]_vars

\* calls of refresh as the clock advances
InitRefresh ==
  RefreshInit /\ MergeParked /\ LoadParked /\ EnvParked /\ FetchParked
notRefreshVars == <<mergeVars, loadVars, envVars, fcall>>
NextRefresh ==
  \/ Tick /\ UNCHANGED <<refreshVars, notRefreshVars>>
  \/ \E version \in Versions : refresh(version) /\ UNCHANGED notRefreshVars
  \/ \E releases \in Feeds :
       getReleasesResolves(releases) /\ UNCHANGED notRefreshVars
  \/ getReleasesRejects /\ UNCHANGED notRefreshVars
  \/ catchHandler /\ UNCHANGED notRefreshVars
SpecRefresh == InitRefresh /\ [][NextRefresh]_vars

----------------------------------------------------------------------------
(* Properties of merge *)

FirstIndex(s, x) ==
  CHOOSE i \in 1..Len(s) : s[i] = x /\ \A j \in 1..(i - 1) : s[j] # x

\* r is the elements of a followed by those of b, each once, at the place
\* of its first occurrence
OrderedUnion(a, b, r) ==
  /\ \A i, j \in 1..Len(r) : i # j => r[i] # r[j]
  /\ Range(r) = Range(a) \cup Range(b)
  /\ Len(r) <= Len(a) + Len(b)
  /\ \A i, j \in 1..Len(r) :
       i < j => FirstIndex(a \o b, r[i]) < FirstIndex(a \o b, r[j])

SequencesMergedAt(o, f, r) ==
  \A k \in DOMAIN o :
    (o[k].t = "seq" /\ f[k].t = "seq") =>
      r[k].t = "seq" /\ OrderedUnion(o[k].v, f[k].v, r[k].v)

\* C1: where both the base and the overlay hold a sequence at a key (at the
\* top level or inside nested objects), the merged value at that key is a
\* sequence without duplicates, holding exactly the elements of the two, no
\* longer than the two together, each element at the place of its first
\* occurrence in base-then-overlay order.
C1_SequencesMergeToOrderedUnion ==
  mpc = "done" =>
    /\ SequencesMergedAt(before.old, before.fresh, ret.v)
    /\ \A k \in Keys :
         (before.old[k].t = "map" /\ before.fresh[k].t = "map") =>
           /\ ret.v[k].t = "map"
           /\ SequencesMergedAt(before.old[k].v, before.fresh[k].v, ret.v[k].v)

\* a merge of two sequences that share an element and where the overlay
\* brings a new one
C1_Witness ==
  /\ mpc = "done"
  /\ \E k \in Keys :
       /\ before.old[k].t = "seq" /\ before.fresh[k].t = "seq"
       /\ Range(before.old[k].v) \cap Range(before.fresh[k].v) # {}
       /\ Range(before.fresh[k].v) \ Range(before.old[k].v) # {}
       /\ Len(ret.v[k].v) < Len(before.old[k].v) + Len(before.fresh[k].v)

\* C2: where the overlay holds a scalar at a key, the merged value at that
\* key is the overlay's scalar, whatever the base holds there.
C2_OverlayScalarWins ==
  mpc = "done" =>
    \A k \in Keys :
      before.fresh[k].t = "scalar" => ret.v[k] = before.fresh[k]

\* C8: after merge(old, fresh) each of the caller's two objects has the keys
\* and values it had before the call.
C8_MergeLeavesInputsUnchanged ==
  mpc = "done" => old = before.old /\ fresh = before.fresh

----------------------------------------------------------------------------
(* Properties of loadFiles *)

RECURSIVE MergedInOrder(_)
\* the documents of a list merged from an empty configuration, first to last
MergedInOrder(docs) ==
  IF docs = <<>> THEN EmptyObject
  ELSE mergeWith(MergedInOrder(SubSeq(docs, 1, Len(docs) - 1)),
                 docs[Len(docs)].doc)

Exists(file) == file.kind # "missing"

\* the indices of the existing files that set key k
Setters(k) ==
  {i \in 1..Len(files) : Exists(files[i]) /\ files[i].doc[k] # Undefined}

\* C3: loadFiles returns the documents of exactly the existing paths merged
\* in list order from an empty configuration; with no existing path the
\* result is empty; a key that existing files set to scalars only has the
\* value of the last of them.
C3_LoadFilesMergesExistingInOrder ==
  lpc = "returned" =>
    /\ conf = MergedInOrder(SelectSeq(files, Exists))
    /\ (\A i \in 1..Len(files) : ~Exists(files[i])) => conf = EmptyObject
    /\ \A k \in Keys :
         (Setters(k) # {} /\ \A i \in Setters(k) : files[i].doc[k].t = "scalar")
           => conf[k] = files[CHOOSE i \in Setters(k) :
                                 \A j \in Setters(k) : j <= i].doc[k]

\* a missing path between two files that set the same key to different
\* scalars
C3_Witness ==
  /\ lpc = "returned"
  /\ Len(files) = 3
  /\ files[2].kind = "missing"
  /\ files[1].kind = "yaml" /\ files[1].doc["a"] = Sc(1)
  /\ files[3].kind = "yaml" /\ files[3].doc["a"] = Sc(2)
  /\ conf["a"] = Sc(2)

----------------------------------------------------------------------------
(* Properties of fetch *)

----------------------------------------------------------------------------
(* Properties of refresh *)

\* the string without its leading "v"s
WithoutLeadingV(string) ==
  LET k == CHOOSE n \in 0..Len(string) :
             /\ \A i \in 1..n : string[i] = "v"
             /\ n < Len(string) => string[n + 1] # "v"
  IN  SubSeq(string, k + 1, Len(string))

\* C5: when the remote call fails (the call rejects, or its answer makes
\* the handler throw), the promise of refresh is not rejected: the only way
\* on is the .catch handler, which resolves it with version = currentVersion
\* without its leading "v", url = "" and expires = now + 86400000, after the
\* one call of the remote feed.
C5_FailureResolvesToFallback ==
  [][(rpc = "rejected" /\ rpc' # rpc) =>
       /\ rpc' = "recovered"
       /\ record' = [version |-> WithoutLeadingV(rversion), url |-> "",
                     expires |-> now + 86400000]
       /\ attempts' = 1]_vars

\* a network failure recovered for a version that starts with "v"
C5_Witness ==
  /\ rpc = "recovered"
  /\ rdata = <<>>
  /\ Head(rversion) = "v"
  /\ record.version = Tail(rversion)
  /\ record.url = ""

NeitherDraftNorPrerelease(release) ==
  ~release.null /\ ~release.draft /\ ~release.prerelease

\* C6: when the remote call succeeds, the record is built from the first
\* release of the listing that is neither a draft nor a pre-release (its
\* tag without the leading "v", its web URL), or from currentVersion
\* without the leading "v" and an empty url when there is none; expires is
\* now + 86400000 either way.
C6_FirstEligibleReleaseWins ==
  [][(rpc = "pending" /\ rpc' = "resolved") =>
       LET found == {i \in 1..Len(rdata') :
                       NeitherDraftNorPrerelease(rdata'[i])}
       IN  IF found # {}
             THEN LET first == CHOOSE i \in found : \A j \in found : i <= j
                  IN  record' =
                        [version |-> WithoutLeadingV(rdata'[first].tag_name),
                         url |-> rdata'[first].html_url,
                         expires |-> now + 86400000]
             ELSE record' = [version |-> WithoutLeadingV(rversion),
                             url |-> "", expires |-> now + 86400000]]_vars

\* a listing whose first entry is a draft and whose second is eligible
C6_Witness ==
  /\ rpc = "resolved"
  /\ Len(rdata) = 2
  /\ rdata[1].draft /\ ~rdata[1].null
  /\ NeitherDraftNorPrerelease(rdata[2])
  /\ rdata[2].tag_name = <<"v", "3">>
  /\ record.version = <<"3">>
  /\ record.url = rdata[2].html_url

----------------------------------------------------------------------------
(* Properties of the environment helpers *)

\* the positions at which target occurs in string
Occurrences(string, target) ==
  {i \in 1..(Len(string) + 1) :
     /\ i + Len(target) - 1 <= Len(string)
     /\ \A j \in 1..Len(target) : string[i + j - 1] = target[j]}

\* string without the first occurrence of target
WithoutFirst(string, target) ==
  LET i == CHOOSE n \in Occurrences(string, target) :
             \A m \in Occurrences(string, target) : n <= m
  IN  SubSeq(string, 1, i - 1)
        \o SubSeq(string, i + Len(target), Len(string))

\* C7: loadEnvs(prefix) returns one entry for each variable whose name
\* contains prefix and no other entry; its key is the camel-cased name with
\* the first occurrence of prefix removed, its value the variable's value.
C7_LoadEnvsStripsPrefix ==
  ecall.op = "loadEnvs" =>
    LET matching == {n \in DOMAIN env : Occurrences(n, ecall.arg) # {}}
    IN  /\ DOMAIN ecall.ret =
             {camelCase(WithoutFirst(n, ecall.arg)) : n \in matching}
        /\ \A n \in matching :
             ecall.ret[camelCase(WithoutFirst(n, ecall.arg))] = env[n]

RECURSIVE Split(_, _, _, _)
\* the entries of a search path
Split(string, sep, entry, acc) ==
  IF string = <<>> THEN Append(acc, entry)
  ELSE IF Head(string) = sep
    THEN Split(Tail(string), sep, <<>>, Append(acc, entry))
    ELSE Split(Tail(string), sep, Append(entry, Head(string)), acc)

\* C9: after updatePath(dir) is called twice in a row, dir is the first
\* entry of the search path and its only occurrence there, and the second
\* call changed nothing and returned what the first returned.
C9_UpdatePathTwiceOnceInFront ==
  (ecall.op = "updatePath" /\ ecall.twice) =>
    LET entries == Split(env[PATH], delimiter, <<>>, <<>>)
    IN  /\ entries[1] = ecall.arg
        /\ Cardinality({i \in 1..Len(entries) : entries[i] = ecall.arg}) = 1
        /\ ~ecall.changed
        /\ ecall.ret = ecall.prevRet

\* C10: after stripEnv(prefix) no name of the environment contains prefix,
\* every variable whose name does not contain it is there with its value,
\* and the environment is what the call returns.
C10_StripEnvRemovesExactlyMatching ==
  [][ecall'.op = "stripEnv" =>
       /\ \A n \in DOMAIN env' : Occurrences(n, ecall'.arg) = {}
       /\ \A n \in DOMAIN env :
            Occurrences(n, ecall'.arg) = {} =>
              n \in DOMAIN env' /\ env'[n] = env[n]
       /\ ecall'.ret = env'
       /\ ecall'.changed <=>
            (\E n \in DOMAIN env : Occurrences(n, ecall'.arg) # {})]_vars

\* stripEnv('LANDO_') removed something and left HOME and PATH
C10_Witness ==
  /\ ecall.op = "stripEnv"
  /\ ecall.arg = <<"L", "A", "N", "D", "O", "_">>
  /\ ecall.changed
  /\ HOME \in DOMAIN env
  /\ PATH \in DOMAIN env

----------------------------------------------------------------------------
====
